---------------------------- MODULE Spec2Model ----------------------------
(***************************************************************************)
(* pman: the action router (App::run / App::handle_action /                *)
(* App::execute_command), the key mapping (key_to_action) and the pickers  *)
(* (SessionPicker, CommandPalette, FilePicker, WorktreePicker,             *)
(* BufferPicker) as a state machine.                                       *)
(*                                                                         *)
(* Strings are sequences of one-character strings, paths are sequences of  *)
(* segments, Option<T> is a sequence of length 0 (None) or 1 (Some).       *)
(* Result<T> is carried by the err field of the threaded state.            *)
(***************************************************************************)
EXTENDS Integers, Sequences, FiniteSets, TLC

VARIABLES
    pc,               \* position of App::run: "start", "loop", "returned", "called"
    result,           \* what run() (or a direct handle_action call) returned: "none", "ok", "err"
    entered,          \* Tui: TRUE between enter() and exit()
    view,             \* App.view
    dialog,           \* App.dialog
    running,          \* App.running
    session_picker,   \* App.session_picker
    command_palette,  \* App.command_palette : Option<CommandPalette>
    file_picker,      \* App.file_picker     : Option<FilePicker>
    worktree_picker,  \* App.worktree_picker : Option<WorktreePicker>
    current_path,     \* App.current_path
    is_repo,          \* whether GitClient::new(current_path) succeeds
    log               \* what the last step did: events read, actions dispatched, calls made

vars == <<pc, result, entered, view, dialog, running, session_picker,
          command_palette, file_picker, worktree_picker, current_path,
          is_repo, log>>

-----------------------------------------------------------------------------
(* Bounds of the model *)

\* longest filter query a picker is driven to
MaxQuery == 2
\* longest text typed into an input dialog
MaxInput == 1
\* deepest directory (in path segments) the file picker navigates to
MaxDepth == 1

-----------------------------------------------------------------------------
(* Option<T> *)

None == <<>>
Some(x) == <<x>>
IsSome(o) == o # <<>>
Unwrap(o) == o[1]

(* Strings *)

Str1(c) == <<c>>
NoName == <<>>

\* char::to_lowercase on the characters the model uses
to_lowercase(c) ==
    CASE c = "A" -> "a"
      [] c = "B" -> "b"
      [] c = "D" -> "d"
      [] OTHER -> c

\* byte order of the characters the model uses (ASCII)
CharOrder == <<".", "A", "B", "D", "a", "b", "c", "d", "h", "j", "k", "m", "n", "q", "r", "y">>

CharRank(c) == CHOOSE i \in 1..Len(CharOrder) : CharOrder[i] = c

str_to_lowercase(s) == [i \in 1..Len(s) |-> to_lowercase(s[i])]

\* Ord for strings: "lt", "eq" or "gt", lexicographic by byte
RECURSIVE str_cmp(_, _)
str_cmp(s, t) ==
    IF s = <<>> /\ t = <<>> THEN "eq"
    ELSE IF s = <<>> THEN "lt"
    ELSE IF t = <<>> THEN "gt"
    ELSE IF CharRank(s[1]) < CharRank(t[1]) THEN "lt"
    ELSE IF CharRank(s[1]) > CharRank(t[1]) THEN "gt"
    ELSE str_cmp(Tail(s), Tail(t))

str_starts_with(s, c) == s # <<>> /\ s[1] = c

(* Paths: sequences of segments; "/" and "" are the empty sequence *)

DotDot == <<".", ".">>
Dot == <<".">>

\* Path::file_name: None when the path is empty or ends in "." or ".."
file_name(path) ==
    IF path = <<>> \/ path[Len(path)] = DotDot \/ path[Len(path)] = Dot
    THEN None
    ELSE Some(path[Len(path)])

\* Path::parent: None for the root / the empty path
parent(path) == IF path = <<>> THEN None ELSE Some(SubSeq(path, 1, Len(path) - 1))

path_join(path, name) == Append(path, name)

-----------------------------------------------------------------------------
(* models: TmuxSession, GitWorktree, PaletteCommand, FileEntry *)

TmuxSession(name) == [name |-> name]

GitWorktree(path, branch, is_main, has_changes) ==
    [path |-> path, branch |-> branch, is_main |-> is_main, has_changes |-> has_changes]

FileEntry(path, is_dir, name) == [path |-> path, is_dir |-> is_dir, name |-> name]

\* PaletteCommand::all
PaletteCommand_all ==
    <<"OpenFile", "NewSession", "KillSession", "ListWorktrees", "CreateWorktree", "GitStatus">>

\* PaletteCommand::non_git_commands
PaletteCommand_non_git_commands == <<"OpenFile", "NewSession", "KillSession">>

\* PaletteCommand::search_text
PaletteCommand_search_text(cmd) ==
    CASE cmd = "OpenFile"       -> <<"o","p","e","n"," ","f","i","l","e">>
      [] cmd = "NewSession"     -> <<"n","e","w"," ","s","e","s","s","i","o","n">>
      [] cmd = "KillSession"    -> <<"k","i","l","l"," ","s","e","s","s","i","o","n">>
      [] cmd = "ListWorktrees"  -> <<"l","i","s","t"," ","w","o","r","k","t","r","e","e","s">>
      [] cmd = "CreateWorktree" -> <<"c","r","e","a","t","e"," ","w","o","r","k","t","r","e","e">>
      [] cmd = "GitStatus"      -> <<"g","i","t"," ","s","t","a","t","u","s">>

\* the search_fn each picker hands to FuzzyList::new, keyed by the list's title
search_text(title, item) ==
    CASE title = "Sessions"  -> item.name
      [] title = "Commands"  -> PaletteCommand_search_text(item)
      [] title = "Files"     -> item.name
      [] title = "Worktrees" -> item.branch

-----------------------------------------------------------------------------
(* FuzzyList<T> *)

\* q is a case-insensitive subsequence of s
RECURSIVE fuzzy_match(_, _)
fuzzy_match(q, s) ==
    IF q = <<>> THEN TRUE
    ELSE IF s = <<>> THEN FALSE
    ELSE IF to_lowercase(q[1]) = to_lowercase(s[1]) THEN fuzzy_match(Tail(q), Tail(s))
    ELSE fuzzy_match(q, Tail(s))

\* the indices (0-based) of the items retained by the query, in item order
RECURSIVE filter_from(_, _, _, _)
filter_from(title, items, q, i) ==
    IF i > Len(items) THEN <<>>
    ELSE IF fuzzy_match(q, search_text(title, items[i]))
         THEN <<i - 1>> \o filter_from(title, items, q, i + 1)
         ELSE filter_from(title, items, q, i + 1)

\* FuzzyList::update_filter: recompute the filtered view, select the top match
update_filter(l) ==
    LET f == filter_from(l.title, l.items, l.query, 1)
    IN [l EXCEPT !.filtered = f, !.cursor = IF f = <<>> THEN None ELSE Some(0)]

\* FuzzyList::new
FuzzyList_new(title) ==
    [title |-> title, items |-> <<>>, query |-> <<>>, filtered |-> <<>>, cursor |-> None]

set_items(l, items) == update_filter([l EXCEPT !.items = items])

push_char(l, c) == update_filter([l EXCEPT !.query = Append(l.query, c)])

pop_char(l) ==
    update_filter([l EXCEPT !.query =
        IF l.query = <<>> THEN <<>> ELSE SubSeq(l.query, 1, Len(l.query) - 1)])

clear_query(l) == update_filter([l EXCEPT !.query = <<>>])

move_up(l) ==
    IF IsSome(l.cursor) /\ Unwrap(l.cursor) > 0
    THEN [l EXCEPT !.cursor = Some(Unwrap(l.cursor) - 1)]
    ELSE l

move_down(l) ==
    IF IsSome(l.cursor) /\ Unwrap(l.cursor) + 1 < Len(l.filtered)
    THEN [l EXCEPT !.cursor = Some(Unwrap(l.cursor) + 1)]
    ELSE l

page_up(l, n) ==
    IF IsSome(l.cursor)
    THEN [l EXCEPT !.cursor =
            Some(IF Unwrap(l.cursor) > n THEN Unwrap(l.cursor) - n ELSE 0)]
    ELSE l

page_down(l, n) ==
    IF IsSome(l.cursor)
    THEN [l EXCEPT !.cursor =
            Some(IF Unwrap(l.cursor) + n < Len(l.filtered)
                 THEN Unwrap(l.cursor) + n ELSE Len(l.filtered) - 1)]
    ELSE l

\* FuzzyList::selected: the item under the cursor in the filtered view
selected(l) ==
    IF IsSome(l.cursor) /\ Unwrap(l.cursor) < Len(l.filtered)
    THEN Some(l.items[l.filtered[Unwrap(l.cursor) + 1] + 1])
    ELSE None

query(l) == l.query

\* the page size every picker passes to page_up / page_down
PageSize == 10

-----------------------------------------------------------------------------
(* actions::Action, InputCallback, ConfirmCallback *)

\* an Action value: its variant and the data the variant carries
Act(kind) ==
    [kind |-> kind, ch |-> "", name |-> NoName, path |-> <<>>, some_path |-> FALSE,
     cmd |-> "", title |-> "", message |-> "", subject |-> NoName, callback |-> "",
     bufnr |-> 0]

Character(c) == [Act("Character") EXCEPT !.ch = c]
SwitchSession(name) == [Act("SwitchSession") EXCEPT !.name = name]
\* CreateSession(String, Option<PathBuf>)
CreateSession(name, opt_path) ==
    [Act("CreateSession") EXCEPT !.name = name,
                                 !.some_path = IsSome(opt_path),
                                 !.path = IF IsSome(opt_path) THEN Unwrap(opt_path) ELSE <<>>]
KillSession(name) == [Act("KillSession") EXCEPT !.name = name]
OpenFile(path) == [Act("OpenFile") EXCEPT !.path = path]
OpenBuffer(socket, bufnr) == [Act("OpenBuffer") EXCEPT !.path = socket, !.bufnr = bufnr]
SwitchWorktree(path) == [Act("SwitchWorktree") EXCEPT !.path = path]
CreateWorktree(branch) == [Act("CreateWorktree") EXCEPT !.name = branch]
DeleteWorktree(path) == [Act("DeleteWorktree") EXCEPT !.path = path]
MergeWorktree(path) == [Act("MergeWorktree") EXCEPT !.path = path]
ExecuteCommand(cmd) == [Act("ExecuteCommand") EXCEPT !.cmd = cmd]
ShowInput(title, callback) == [Act("ShowInput") EXCEPT !.title = title, !.callback = callback]
\* ShowConfirm { title, message, callback }: the message is a format string and
\* its argument (subject); the callback tag carries a name or a path
ShowConfirm(title, message, subject, callback, name, path) ==
    [Act("ShowConfirm") EXCEPT !.title = title, !.message = message, !.subject = subject,
                               !.callback = callback, !.name = name, !.path = path]

-----------------------------------------------------------------------------
(* tui::event: KeyEvent and key_to_action *)

\* a key press: its KeyCode (the character of KeyCode::Char in ch) and its
\* KeyModifiers, a set of flags
KeyEvent(code, ch, modifiers) == [code |-> code, ch |-> ch, modifiers |-> modifiers]

contains_CONTROL(key) == "CONTROL" \in key.modifiers

\* the match of key_to_action, arm by arm: a guard after `A | B` applies to both
\* alternatives, and a failed guard falls through to the later arms
\* a key map without the arm for 'q'
key_to_action_without_q(key) ==
    IF key.code = "Char" /\ key.ch = "c" /\ contains_CONTROL(key) THEN Some(Act("Quit"))
    ELSE IF key.code = "Esc" THEN Some(Act("Escape"))
    ELSE IF key.code = "Enter" THEN Some(Act("Enter"))
    ELSE IF (key.code = "Up" \/ (key.code = "Char" /\ key.ch = "k")) /\ contains_CONTROL(key)
         THEN Some(Act("MoveUp"))
    ELSE IF (key.code = "Down" \/ (key.code = "Char" /\ key.ch = "j")) /\ contains_CONTROL(key)
         THEN Some(Act("MoveDown"))
    ELSE IF key.code = "PageUp" THEN Some(Act("PageUp"))
    ELSE IF key.code = "PageDown" THEN Some(Act("PageDown"))
    ELSE IF key.code = "Backspace" THEN Some(Act("Backspace"))
    ELSE IF key.code = "Char" THEN Some(Character(key.ch))
    ELSE None

key_to_action(key) ==
    IF key.code = "Char" /\ key.ch = "c" /\ contains_CONTROL(key) THEN Some(Act("Quit"))
    ELSE IF key.code = "Char" /\ key.ch = "q" THEN Some(Act("Quit"))
    ELSE IF key.code = "Esc" THEN Some(Act("Escape"))
    ELSE IF key.code = "Enter" THEN Some(Act("Enter"))
    ELSE IF (key.code = "Up" \/ (key.code = "Char" /\ key.ch = "k")) /\ contains_CONTROL(key)
         THEN Some(Act("MoveUp"))
    ELSE IF (key.code = "Down" \/ (key.code = "Char" /\ key.ch = "j")) /\ contains_CONTROL(key)
         THEN Some(Act("MoveDown"))
    ELSE IF key.code = "PageUp" THEN Some(Act("PageUp"))
    ELSE IF key.code = "PageDown" THEN Some(Act("PageDown"))
    ELSE IF key.code = "Backspace" THEN Some(Act("Backspace"))
    ELSE IF key.code = "Char" THEN Some(Character(key.ch))
    ELSE None

-----------------------------------------------------------------------------
(* Dialog, InputDialog, ConfirmDialog *)

DialogNone ==
    [kind |-> "None", title |-> "", message |-> "", subject |-> NoName, callback |-> "",
     name |-> NoName, path |-> <<>>, input |-> <<>>, selected |-> FALSE]

\* InputDialog::new(title, callback): empty text buffer
InputDialog_new(title, callback) ==
    [DialogNone EXCEPT !.kind = "Input", !.title = title, !.callback = callback]

\* ConfirmDialog::new(title, message, callback): selection defaults to yes
ConfirmDialog_new(title, message, subject, callback, name, path) ==
    [DialogNone EXCEPT !.kind = "Confirm", !.title = title, !.message = message,
                       !.subject = subject, !.callback = callback, !.name = name,
                       !.path = path, !.selected = TRUE]

\* InputDialog::handle_action: [dialog, ret : Option<Action>]
InputDialog_handle_action(d, action) ==
    CASE action.kind = "Character" ->
            [dialog |-> [d EXCEPT !.input = Append(@, action.ch)], ret |-> None]
      [] action.kind = "Backspace" ->
            [dialog |-> [d EXCEPT !.input =
                            IF @ = <<>> THEN <<>> ELSE SubSeq(@, 1, Len(@) - 1)],
             ret |-> None]
      [] action.kind = "Enter" ->
            [dialog |-> d,
             ret |-> IF d.callback = "CreateSession"
                     THEN Some(CreateSession(d.input, None))
                     ELSE Some(CreateWorktree(d.input))]
      [] action.kind = "Escape" -> [dialog |-> d, ret |-> Some(Act("CloseDialog"))]
      [] OTHER -> [dialog |-> d, ret |-> None]

\* the domain action a confirm callback tag stands for
confirm_action(d) ==
    CASE d.callback = "KillSession"    -> KillSession(d.name)
      [] d.callback = "DeleteWorktree" -> DeleteWorktree(d.path)
      [] d.callback = "MergeWorktree"  -> MergeWorktree(d.path)

\* ConfirmDialog::handle_action: [dialog, ret : Option<Action>]
ConfirmDialog_handle_action(d, action) ==
    CASE action.kind \in {"MoveUp", "MoveDown"} ->
            [dialog |-> [d EXCEPT !.selected = ~@], ret |-> None]
      [] action.kind = "Character" /\ action.ch = "y" ->
            [dialog |-> [d EXCEPT !.selected = TRUE], ret |-> None]
      [] action.kind = "Character" /\ action.ch = "n" ->
            [dialog |-> [d EXCEPT !.selected = FALSE], ret |-> None]
      [] action.kind = "Enter" ->
            [dialog |-> d,
             ret |-> IF d.selected THEN Some(confirm_action(d)) ELSE Some(Act("CloseDialog"))]
      [] action.kind = "Escape" -> [dialog |-> d, ret |-> Some(Act("CloseDialog"))]
      [] OTHER -> [dialog |-> d, ret |-> None]

-----------------------------------------------------------------------------
(* The state threaded through one step, the inputs of the step, its record *)

\* one entry of the record of a step: a key read, an action dispatched, a
\* collaborator called (ok = FALSE when the call returned Err), with the
\* surface, the dialog and the view as they were at that moment
Ev(op) ==
    [op |-> op, ok |-> TRUE, entered |-> FALSE, dlg |-> "", view |-> "",
     act |-> Act(""), key |-> KeyEvent("", "", {}),
     name |-> NoName, path |-> <<>>, some_path |-> FALSE, branch |-> NoName,
     sessions |-> <<>>, worktrees |-> <<>>, entries |-> <<>>]

Emit(s, ev) ==
    [s EXCEPT !.log = Append(@, [ev EXCEPT !.entered = s.entered,
                                           !.dlg = s.dialog.kind,
                                           !.view = s.view])]

\* a call that returns a Result: the env.fail_at-th such call of the step fails
Call(s, env, ev) ==
    LET n == s.ncalls + 1
        failed == (n = env.fail_at)
    IN [Emit(s, [ev EXCEPT !.ok = ~failed]) EXCEPT !.ncalls = n, !.err = failed]

\* `let _ = f()` / `.ok()`: the error of f is dropped
Swallow(s) == [s EXCEPT !.err = FALSE]

(* Tui *)

Tui_enter(s, env) ==
    LET c == Call(s, env, Ev("tui.enter"))
    IN IF c.err THEN c ELSE [c EXCEPT !.entered = TRUE]

Tui_exit(s, env) ==
    LET c == Call(s, env, Ev("tui.exit"))
    IN IF c.err THEN c ELSE [c EXCEPT !.entered = FALSE]

(* TmuxClient *)

tmux_list_sessions(s, env) == Call(s, env, [Ev("list_sessions") EXCEPT !.sessions = env.sessions])
tmux_switch_session(s, env, name) == Call(s, env, [Ev("switch_session") EXCEPT !.name = name])
tmux_create_session(s, env, name, opt_path) ==
    Call(s, env, [Ev("create_session") EXCEPT
                    !.name = name, !.some_path = IsSome(opt_path),
                    !.path = IF IsSome(opt_path) THEN Unwrap(opt_path) ELSE <<>>])
tmux_kill_session(s, env, name) == Call(s, env, [Ev("kill_session") EXCEPT !.name = name])
tmux_current_session(s, env) == Call(s, env, [Ev("current_session") EXCEPT !.name = env.current])
tmux_popup_command(s, env) == Call(s, env, Ev("popup_command"))

(* GitClient *)

\* what list_worktrees() answers when called in state s of a step: the
\* first call of the step and the later ones are answered separately
list_worktrees_answer(s, env) ==
    IF \E i \in DOMAIN s.log : s.log[i].op = "list_worktrees"
    THEN env.worktrees_again
    ELSE env.worktrees

git_list_worktrees(s, env) ==
    Call(s, env, [Ev("list_worktrees") EXCEPT !.worktrees = list_worktrees_answer(s, env)])
git_create_worktree(s, env, branch) ==
    Call(s, env, [Ev("create_worktree") EXCEPT !.branch = branch, !.path = env.new_path])
git_delete_worktree(s, env, path) == Call(s, env, [Ev("delete_worktree") EXCEPT !.path = path])
git_merge_to_main(s, env, path, branch) ==
    Call(s, env, [Ev("merge_to_main") EXCEPT !.path = path, !.branch = branch])

(* NvimIntegration *)

nvim_open_file(s, env, path) == Call(s, env, [Ev("open_file") EXCEPT !.path = path])

-----------------------------------------------------------------------------
(* components::SessionPicker *)

SessionPicker_new == [fuzzy_list |-> FuzzyList_new("Sessions")]

SessionPicker_refresh_appends(s, env) ==
    LET c == tmux_list_sessions(s, env)
    IN IF c.err THEN c
       ELSE [c EXCEPT !.session_picker.fuzzy_list = set_items(@, @.items \o env.sessions)]

SessionPicker_refresh(s, env) ==
    LET c == tmux_list_sessions(s, env)
    IN IF c.err THEN c
       ELSE [c EXCEPT !.session_picker.fuzzy_list = set_items(@, env.sessions)]

\* Component::handle_action for SessionPicker: [list, ret]
SessionPicker_arms(l, action) ==
    CASE action.kind = "MoveUp"    -> [list |-> move_up(l), ret |-> Some(Act("Render"))]
      [] action.kind = "MoveDown"  -> [list |-> move_down(l), ret |-> Some(Act("Render"))]
      [] action.kind = "PageUp"    -> [list |-> page_up(l, PageSize), ret |-> Some(Act("Render"))]
      [] action.kind = "PageDown"  -> [list |-> page_down(l, PageSize), ret |-> Some(Act("Render"))]
      [] action.kind = "Character" ->
            IF action.ch = "d" /\ query(l) = <<>>
            THEN IF IsSome(selected(l))
                 THEN [list |-> l,
                       ret |-> Some(ShowConfirm("Delete Session", "Delete session '{}'?",
                                                Unwrap(selected(l)).name, "KillSession",
                                                Unwrap(selected(l)).name, <<>>))]
                 ELSE [list |-> l, ret |-> None]
            ELSE IF action.ch = "n" /\ query(l) = <<>>
            THEN [list |-> l, ret |-> Some(ShowInput("New Session", "CreateSession"))]
            ELSE [list |-> push_char(l, action.ch), ret |-> Some(Act("Render"))]
      [] action.kind = "Backspace" -> [list |-> pop_char(l), ret |-> Some(Act("Render"))]
      [] action.kind = "Enter" ->
            IF IsSome(selected(l))
            THEN [list |-> l, ret |-> Some(SwitchSession(Unwrap(selected(l)).name))]
            ELSE [list |-> l, ret |-> None]
      [] action.kind = "Escape" ->
            IF query(l) # <<>>
            THEN [list |-> clear_query(l), ret |-> Some(Act("Render"))]
            ELSE [list |-> l, ret |-> Some(Act("GoBack"))]
      [] OTHER -> [list |-> l, ret |-> None]

\* a session picker whose Escape clears the query and goes back at once
SessionPicker_handle_action_escape_goes_back(s, env, action) ==
    LET r == SessionPicker_arms(s.session_picker.fuzzy_list, action)
    IN [s |-> [s EXCEPT !.session_picker.fuzzy_list = r.list],
        ret |-> IF action.kind = "Escape" THEN Some(Act("GoBack")) ELSE r.ret]

\* a session picker that takes 'd' for a typed character when nothing is selected
SessionPicker_handle_action_types_d(s, env, action) ==
    LET l == s.session_picker.fuzzy_list
        r == IF action.kind = "Character" /\ action.ch = "d" /\ selected(l) = None
             THEN [list |-> push_char(l, action.ch), ret |-> Some(Act("Render"))]
             ELSE SessionPicker_arms(l, action)
    IN [s |-> [s EXCEPT !.session_picker.fuzzy_list = r.list], ret |-> r.ret]

SessionPicker_handle_action(s, env, action) ==
    LET r == SessionPicker_arms(s.session_picker.fuzzy_list, action)
    IN [s |-> [s EXCEPT !.session_picker.fuzzy_list = r.list], ret |-> r.ret]

-----------------------------------------------------------------------------
(* components::CommandPalette *)

CommandPalette_refresh(p) ==
    [p EXCEPT !.fuzzy_list =
        set_items(@, IF p.is_git_repo THEN PaletteCommand_all
                     ELSE PaletteCommand_non_git_commands)]

\* CommandPalette::set_git_repo(is_git_repo)
CommandPalette_set_git_repo(p, is_git_repo) ==
    CommandPalette_refresh([p EXCEPT !.is_git_repo = is_git_repo])

\* CommandPalette::new(current_path): GitClient::is_git_repo probes the path
CommandPalette_new(is_git_repo) ==
    CommandPalette_refresh([fuzzy_list |-> FuzzyList_new("Commands"),
                            is_git_repo |-> is_git_repo])

\* Component::handle_action for CommandPalette: [list, ret]
CommandPalette_arms(l, action) ==
    CASE action.kind = "MoveUp"    -> [list |-> move_up(l), ret |-> Some(Act("Render"))]
      [] action.kind = "MoveDown"  -> [list |-> move_down(l), ret |-> Some(Act("Render"))]
      [] action.kind = "PageUp"    -> [list |-> page_up(l, PageSize), ret |-> Some(Act("Render"))]
      [] action.kind = "PageDown"  -> [list |-> page_down(l, PageSize), ret |-> Some(Act("Render"))]
      [] action.kind = "Character" ->
            [list |-> push_char(l, action.ch), ret |-> Some(Act("Render"))]
      [] action.kind = "Backspace" -> [list |-> pop_char(l), ret |-> Some(Act("Render"))]
      [] action.kind = "Enter" ->
            IF IsSome(selected(l))
            THEN [list |-> l, ret |-> Some(ExecuteCommand(Unwrap(selected(l))))]
            ELSE [list |-> l, ret |-> None]
      [] action.kind = "Escape" ->
            IF query(l) # <<>>
            THEN [list |-> clear_query(l), ret |-> Some(Act("Render"))]
            ELSE [list |-> l, ret |-> Some(Act("GoBack"))]
      [] OTHER -> [list |-> l, ret |-> None]

\* a palette whose cursor stays where it was when a character is typed
CommandPalette_handle_action_keeps_cursor(s, env, action) ==
    LET l == Unwrap(s.command_palette).fuzzy_list
        r == CommandPalette_arms(l, action)
        l2 == IF action.kind = "Character" THEN [r.list EXCEPT !.cursor = l.cursor] ELSE r.list
    IN [s |-> [s EXCEPT !.command_palette = Some([Unwrap(@) EXCEPT !.fuzzy_list = l2])],
        ret |-> r.ret]

\* on the palette of s (which exists)
CommandPalette_handle_action(s, env, action) ==
    LET r == CommandPalette_arms(Unwrap(s.command_palette).fuzzy_list, action)
    IN [s |-> [s EXCEPT !.command_palette =
                    Some([Unwrap(@) EXCEPT !.fuzzy_list = r.list])],
        ret |-> r.ret]

-----------------------------------------------------------------------------
(* components::FilePicker *)

\* the comparator of dir_entries.sort_by: directories first, then by lowercased name
entry_cmp(a, b) ==
    IF a.is_dir /\ ~b.is_dir THEN "lt"
    ELSE IF ~a.is_dir /\ b.is_dir THEN "gt"
    ELSE str_cmp(str_to_lowercase(a.name), str_to_lowercase(b.name))

\* insert x behind every element that does not compare greater (stable)
RECURSIVE sorted_insert(_, _)
sorted_insert(sorted, x) ==
    IF sorted = <<>> THEN <<x>>
    ELSE IF entry_cmp(x, sorted[1]) = "lt" THEN <<x>> \o sorted
    ELSE <<sorted[1]>> \o sorted_insert(Tail(sorted), x)

\* Vec::sort_by (a stable sort)
RECURSIVE sort_entries(_)
sort_entries(es) ==
    IF es = <<>> THEN <<>>
    ELSE sorted_insert(sort_entries(SubSeq(es, 1, Len(es) - 1)), es[Len(es)])

\* filter_map over read_dir: hidden names are skipped
RECURSIVE visible_entries(_, _)
visible_entries(dir, raw) ==
    IF raw = <<>> THEN <<>>
    ELSE IF str_starts_with(raw[1].name, ".") THEN visible_entries(dir, Tail(raw))
    ELSE <<FileEntry(path_join(dir, raw[1].name), raw[1].is_dir, raw[1].name)>>
         \o visible_entries(dir, Tail(raw))

\* FilePicker::refresh on the file picker of s (which exists); always Ok
FilePicker_refresh(s, env) ==
    LET fp == Unwrap(s.file_picker)
        up == IF IsSome(parent(fp.current_dir))
              THEN <<FileEntry(Unwrap(parent(fp.current_dir)), TRUE, DotDot)>>
              ELSE <<>>
        c == Call(s, env, [Ev("read_dir") EXCEPT !.path = fp.current_dir])
        entries == IF c.err THEN up
                   ELSE up \o sort_entries(visible_entries(fp.current_dir, env.entries))
    IN [Swallow(c) EXCEPT !.file_picker =
            Some([fp EXCEPT !.fuzzy_list = set_items(@, entries)])]

\* FilePicker::new(start_path)
FilePicker_new(s, env, start_path) ==
    LET probe == Emit(s, [Ev("is_dir") EXCEPT !.path = start_path, !.ok = env.is_dir])
        current_dir == IF env.is_dir THEN start_path
                       ELSE IF IsSome(parent(start_path)) THEN Unwrap(parent(start_path))
                       ELSE <<Dot>>
        picker == [fuzzy_list |-> FuzzyList_new("Files"), current_dir |-> current_dir]
    IN Swallow(FilePicker_refresh([probe EXCEPT !.file_picker = Some(picker)], env))

\* a navigate_to that puts the cursor back where it was in the directory left
FilePicker_navigate_to_keeps_cursor(s, env, path) ==
    LET fp == Unwrap(s.file_picker)
        r == FilePicker_refresh(
                [s EXCEPT !.file_picker =
                    Some([fp EXCEPT !.current_dir = path,
                                    !.fuzzy_list = clear_query(fp.fuzzy_list)])], env)
    IN [r EXCEPT !.file_picker =
            Some([Unwrap(@) EXCEPT !.fuzzy_list.cursor = fp.fuzzy_list.cursor])]

\* FilePicker::navigate_to
FilePicker_navigate_to(s, env, path) ==
    LET fp == Unwrap(s.file_picker)
    IN FilePicker_refresh(
        [s EXCEPT !.file_picker =
            Some([fp EXCEPT !.current_dir = path,
                            !.fuzzy_list = clear_query(fp.fuzzy_list)])], env)

\* Component::handle_action for FilePicker, on the file picker of s: [s, ret]
FilePicker_handle_action(s, env, action) ==
    LET fp == Unwrap(s.file_picker)
        l == fp.fuzzy_list
        with(l2) == [s EXCEPT !.file_picker = Some([fp EXCEPT !.fuzzy_list = l2])]
    IN CASE action.kind = "MoveUp"    -> [s |-> with(move_up(l)), ret |-> Some(Act("Render"))]
         [] action.kind = "MoveDown"  -> [s |-> with(move_down(l)), ret |-> Some(Act("Render"))]
         [] action.kind = "PageUp"    -> [s |-> with(page_up(l, PageSize)), ret |-> Some(Act("Render"))]
         [] action.kind = "PageDown"  -> [s |-> with(page_down(l, PageSize)), ret |-> Some(Act("Render"))]
         [] action.kind = "Character" ->
                [s |-> with(push_char(l, action.ch)), ret |-> Some(Act("Render"))]
         [] action.kind = "Backspace" -> [s |-> with(pop_char(l)), ret |-> Some(Act("Render"))]
         [] action.kind = "Enter" ->
                IF IsSome(selected(l))
                THEN IF Unwrap(selected(l)).is_dir
                     THEN LET n == FilePicker_navigate_to(s, env, Unwrap(selected(l)).path)
                          IN IF n.err THEN [s |-> n, ret |-> None]
                             ELSE [s |-> n, ret |-> Some(Act("Render"))]
                     ELSE [s |-> s, ret |-> Some(OpenFile(Unwrap(selected(l)).path))]
                ELSE [s |-> s, ret |-> None]
         [] action.kind = "Escape" ->
                IF query(l) # <<>>
                THEN [s |-> with(clear_query(l)), ret |-> Some(Act("Render"))]
                ELSE [s |-> s, ret |-> Some(Act("GoBack"))]
         [] OTHER -> [s |-> s, ret |-> None]

-----------------------------------------------------------------------------
(* components::WorktreePicker *)

\* WorktreePicker::refresh on the worktree picker of s (which exists)
WorktreePicker_refresh(s, env) ==
    LET wp == Unwrap(s.worktree_picker)
    IN IF wp.git
       THEN LET c == git_list_worktrees(s, env)
            IN IF c.err THEN c
               ELSE [c EXCEPT !.worktree_picker =
                        Some([wp EXCEPT !.fuzzy_list =
                                            set_items(@, list_worktrees_answer(s, env))])]
       ELSE s

\* WorktreePicker::new(current_path): git is GitClient::new(current_path).ok()
WorktreePicker_new(s, env) ==
    LET picker == [fuzzy_list |-> FuzzyList_new("Worktrees"), git |-> s.is_repo]
    IN Swallow(WorktreePicker_refresh([s EXCEPT !.worktree_picker = Some(picker)], env))

\* Component::handle_action for WorktreePicker: [list, ret]
WorktreePicker_arms(l, action) ==
    CASE action.kind = "MoveUp"    -> [list |-> move_up(l), ret |-> Some(Act("Render"))]
      [] action.kind = "MoveDown"  -> [list |-> move_down(l), ret |-> Some(Act("Render"))]
      [] action.kind = "PageUp"    -> [list |-> page_up(l, PageSize), ret |-> Some(Act("Render"))]
      [] action.kind = "PageDown"  -> [list |-> page_down(l, PageSize), ret |-> Some(Act("Render"))]
      [] action.kind = "Character" ->
            IF action.ch = "d" /\ query(l) = <<>>
            THEN IF IsSome(selected(l))
                 THEN LET wt == Unwrap(selected(l))
                      IN IF wt.is_main THEN [list |-> l, ret |-> None]
                         ELSE IF wt.has_changes
                         THEN [list |-> l,
                               ret |-> Some(ShowConfirm("Delete Worktree",
                                    "Worktree '{}' has uncommitted changes. Delete anyway?",
                                    wt.branch, "DeleteWorktree", NoName, wt.path))]
                         ELSE [list |-> l,
                               ret |-> Some(ShowConfirm("Delete Worktree",
                                    "Delete worktree '{}'?",
                                    wt.branch, "DeleteWorktree", NoName, wt.path))]
                 ELSE [list |-> l, ret |-> None]
            ELSE IF action.ch = "m" /\ query(l) = <<>>
            THEN IF IsSome(selected(l))
                 THEN LET wt == Unwrap(selected(l))
                      IN IF wt.is_main THEN [list |-> l, ret |-> None]
                         ELSE [list |-> l,
                               ret |-> Some(ShowConfirm("Merge to Main",
                                    "Merge '{}' to main and delete worktree?",
                                    wt.branch, "MergeWorktree", NoName, wt.path))]
                 ELSE [list |-> l, ret |-> None]
            ELSE IF action.ch = "n" /\ query(l) = <<>>
            THEN [list |-> l, ret |-> Some(ShowInput("New Worktree Branch", "CreateWorktree"))]
            ELSE [list |-> push_char(l, action.ch), ret |-> Some(Act("Render"))]
      [] action.kind = "Backspace" -> [list |-> pop_char(l), ret |-> Some(Act("Render"))]
      [] action.kind = "Enter" ->
            IF IsSome(selected(l))
            THEN [list |-> l, ret |-> Some(SwitchWorktree(Unwrap(selected(l)).path))]
            ELSE [list |-> l, ret |-> None]
      [] action.kind = "Escape" ->
            IF query(l) # <<>>
            THEN [list |-> clear_query(l), ret |-> Some(Act("Render"))]
            ELSE [list |-> l, ret |-> Some(Act("GoBack"))]
      [] OTHER -> [list |-> l, ret |-> None]

\* a worktree picker whose hotkeys take the main worktree for an ordinary one
WorktreePicker_handle_action_on_main(s, env, action) ==
    LET l == Unwrap(s.worktree_picker).fuzzy_list
        ordinary == [i \in DOMAIN l.items |-> [l.items[i] EXCEPT !.is_main = FALSE]]
        r == WorktreePicker_arms([l EXCEPT !.items = ordinary], action)
    IN [s |-> [s EXCEPT !.worktree_picker =
                    Some([Unwrap(@) EXCEPT !.fuzzy_list = [r.list EXCEPT !.items = l.items]])],
        ret |-> r.ret]

\* on the worktree picker of s (which exists)
WorktreePicker_handle_action(s, env, action) ==
    LET r == WorktreePicker_arms(Unwrap(s.worktree_picker).fuzzy_list, action)
    IN [s |-> [s EXCEPT !.worktree_picker =
                    Some([Unwrap(@) EXCEPT !.fuzzy_list = r.list])],
        ret |-> r.ret]

-----------------------------------------------------------------------------
(* App: the router.  Every operator takes the threaded state s and returns   *)
(* it as the code leaves it; s.err = TRUE is the Err the function returns.   *)

RECURSIVE handle_action(_, _, _)

\* Action::SwitchSession(name)
global_SwitchSession(s, env, action) ==
    LET s1 == Tui_exit(s, env)
    IN IF s1.err THEN s1
       ELSE LET s2 == tmux_switch_session(s1, env, action.name)
            IN IF s2.err THEN s2 ELSE [s2 EXCEPT !.running = FALSE]

\* a CreateSession that stops the loop before it has created anything
global_CreateSession_stops_first(s, env, action) ==
    LET s0 == [s EXCEPT !.running = FALSE]
        s1 == tmux_create_session(s0, env, action.name,
                                  IF action.some_path THEN Some(action.path) ELSE None)
    IN IF s1.err THEN s1
       ELSE LET s2 == tmux_switch_session(s1, env, action.name)
            IN IF s2.err THEN s2 ELSE [s2 EXCEPT !.dialog = DialogNone]

\* Action::CreateSession(name, path)
global_CreateSession(s, env, action) ==
    LET s1 == tmux_create_session(s, env, action.name,
                                  IF action.some_path THEN Some(action.path) ELSE None)
    IN IF s1.err THEN s1
       ELSE LET s2 == tmux_switch_session(s1, env, action.name)
            IN IF s2.err THEN s2
               ELSE [s2 EXCEPT !.dialog = DialogNone, !.running = FALSE]

\* a KillSession that leaves the session picker's list as it was
global_KillSession_without_refresh(s, env, action) ==
    LET s1 == tmux_kill_session(s, env, action.name)
    IN IF s1.err THEN s1 ELSE [s1 EXCEPT !.dialog = DialogNone]

\* Action::KillSession(name)
global_KillSession(s, env, action) ==
    LET s1 == tmux_kill_session(s, env, action.name)
    IN IF s1.err THEN s1
       ELSE SessionPicker_refresh([s1 EXCEPT !.dialog = DialogNone], env)

\* Action::OpenFile(path)
global_OpenFile(s, env, action) ==
    LET s1 == Tui_exit(s, env)
    IN IF s1.err THEN s1
       ELSE LET s2 == nvim_open_file(s1, env, action.path)
            IN IF s2.err THEN s2 ELSE [s2 EXCEPT !.running = FALSE]

\* the session name SwitchWorktree derives from the path
worktree_session_name(path) ==
    IF IsSome(file_name(path)) THEN Unwrap(file_name(path))
    ELSE <<"w", "o", "r", "k", "t", "r", "e", "e">>

\* a SwitchWorktree that creates the session whether or not it exists
global_SwitchWorktree_always_creates(s, env, action) ==
    LET session_name == worktree_session_name(action.path)
        s1 == tmux_list_sessions(s, env)
        s2 == tmux_create_session(s1, env, session_name, Some(action.path))
    IN IF s1.err THEN s1
       ELSE IF s2.err THEN s2
       ELSE LET s3 == Tui_exit(s2, env)
            IN IF s3.err THEN s3
               ELSE LET s4 == tmux_switch_session(s3, env, session_name)
                    IN IF s4.err THEN s4 ELSE [s4 EXCEPT !.running = FALSE]

\* Action::SwitchWorktree(path)
global_SwitchWorktree(s, env, action) ==
    LET session_name == worktree_session_name(action.path)
        s1 == tmux_list_sessions(s, env)
        session_exists == \E i \in DOMAIN env.sessions : env.sessions[i].name = session_name
        s2 == IF session_exists THEN s1
              ELSE tmux_create_session(s1, env, session_name, Some(action.path))
    IN IF s1.err THEN s1
       ELSE IF s2.err THEN s2
       ELSE LET s3 == Tui_exit(s2, env)
            IN IF s3.err THEN s3
               ELSE LET s4 == tmux_switch_session(s3, env, session_name)
                    IN IF s4.err THEN s4 ELSE [s4 EXCEPT !.running = FALSE]

\* a CreateWorktree that does not chain into SwitchWorktree
global_CreateWorktree_without_switch(s, env, action) ==
    IF s.is_repo
    THEN LET s1 == git_create_worktree(s, env, action.name)
         IN IF s1.err THEN s1 ELSE [s1 EXCEPT !.dialog = DialogNone]
    ELSE [s EXCEPT !.dialog = DialogNone]

\* Action::CreateWorktree(branch_name)
global_CreateWorktree(s, env, action) ==
    IF s.is_repo
    THEN LET s1 == git_create_worktree(s, env, action.name)
         IN IF s1.err THEN s1
            ELSE handle_action([s1 EXCEPT !.dialog = DialogNone], env,
                               SwitchWorktree(env.new_path))
    ELSE [s EXCEPT !.dialog = DialogNone]

\* a DeleteWorktree that does not ask whether the path is a repository
global_DeleteWorktree_without_repo(s, env, action) ==
    LET s1 == git_delete_worktree(s, env, action.path)
        s2 == IF IsSome(s1.worktree_picker) THEN WorktreePicker_refresh(s1, env) ELSE s1
    IN IF s1.err THEN s1
       ELSE IF s2.err THEN s2
       ELSE [s2 EXCEPT !.dialog = DialogNone]

\* Action::DeleteWorktree(path)
global_DeleteWorktree(s, env, action) ==
    IF s.is_repo
    THEN LET s1 == git_delete_worktree(s, env, action.path)
             s2 == IF IsSome(s1.worktree_picker) THEN WorktreePicker_refresh(s1, env) ELSE s1
         IN IF s1.err THEN s1
            ELSE IF s2.err THEN s2
            ELSE [s2 EXCEPT !.dialog = DialogNone]
    ELSE [s EXCEPT !.dialog = DialogNone]

\* a MergeWorktree that takes the branch of the first listed worktree
global_MergeWorktree_first_branch(s, env, action) ==
    IF s.is_repo
    THEN LET s1 == git_list_worktrees(s, env)
             worktrees == list_worktrees_answer(s, env)
             s2 == IF worktrees # <<>>
                   THEN git_merge_to_main(s1, env, action.path, worktrees[1].branch)
                   ELSE s1
             s3 == IF IsSome(s2.worktree_picker) THEN WorktreePicker_refresh(s2, env) ELSE s2
         IN IF s1.err THEN s1
            ELSE IF s2.err THEN s2
            ELSE IF s3.err THEN s3
            ELSE [s3 EXCEPT !.dialog = DialogNone]
    ELSE [s EXCEPT !.dialog = DialogNone]

\* a MergeWorktree that returns an error when the path is not listed
global_MergeWorktree_unlisted_is_error(s, env, action) ==
    IF s.is_repo
    THEN LET s1 == git_list_worktrees(s, env)
             worktrees == list_worktrees_answer(s, env)
             found == {i \in DOMAIN worktrees : worktrees[i].path = action.path}
             wt == worktrees[CHOOSE i \in found : \A j \in found : i <= j]
             s2 == IF found # {} THEN git_merge_to_main(s1, env, action.path, wt.branch)
                   ELSE [s1 EXCEPT !.err = TRUE]
             s3 == IF IsSome(s2.worktree_picker) THEN WorktreePicker_refresh(s2, env) ELSE s2
         IN IF s1.err THEN s1
            ELSE IF s2.err THEN s2
            ELSE IF s3.err THEN s3
            ELSE [s3 EXCEPT !.dialog = DialogNone]
    ELSE [s EXCEPT !.dialog = DialogNone]

\* Action::MergeWorktree(path)
global_MergeWorktree(s, env, action) ==
    IF s.is_repo
    THEN LET s1 == git_list_worktrees(s, env)
             \* the answer of the call above; the refresh below asks again
             worktrees == list_worktrees_answer(s, env)
             found == {i \in DOMAIN worktrees : worktrees[i].path = action.path}
             \* iter().find: the first worktree with that path
             wt == worktrees[CHOOSE i \in found : \A j \in found : i <= j]
             s2 == IF found # {} THEN git_merge_to_main(s1, env, action.path, wt.branch)
                   ELSE s1
             s3 == IF IsSome(s2.worktree_picker) THEN WorktreePicker_refresh(s2, env) ELSE s2
         IN IF s1.err THEN s1
            ELSE IF s2.err THEN s2
            ELSE IF s3.err THEN s3
            ELSE [s3 EXCEPT !.dialog = DialogNone]
    ELSE [s EXCEPT !.dialog = DialogNone]

\* Action::ShowSessionPicker
global_ShowSessionPicker(s, env, action) ==
    SessionPicker_refresh([s EXCEPT !.view = "SessionPicker"], env)

\* Action::ShowCommandPalette
global_ShowCommandPalette(s, env, action) ==
    LET s1 == [s EXCEPT !.view = "CommandPalette"]
    IN IF s1.command_palette = None
       THEN [s1 EXCEPT !.command_palette = Some(CommandPalette_new(s.is_repo))]
       ELSE s1

\* a ShowFilePicker that builds the file picker on every activation
global_ShowFilePicker_rebuilds(s, env, action) ==
    FilePicker_new([s EXCEPT !.view = "FilePicker"], env, s.current_path)

\* Action::ShowFilePicker
global_ShowFilePicker(s, env, action) ==
    LET s1 == [s EXCEPT !.view = "FilePicker"]
    IN IF s1.file_picker = None THEN FilePicker_new(s1, env, s1.current_path) ELSE s1

\* Action::ShowWorktreePicker
global_ShowWorktreePicker(s, env, action) ==
    LET s1 == [s EXCEPT !.view = "WorktreePicker"]
    IN IF s1.worktree_picker = None THEN WorktreePicker_new(s1, env) ELSE s1

\* Action::ShowGitDiff
global_ShowGitDiff(s, env, action) ==
    LET s1 == Tui_exit(s, env)
    IN IF s1.err THEN s1
       ELSE LET s2 == tmux_popup_command(s1, env)
            IN IF s2.err THEN s2 ELSE Tui_enter(s2, env)

\* an execute_command whose GitStatus goes through the palette once more
execute_command_again(s, env, cmd) ==
    IF cmd = "GitStatus" THEN handle_action(s, env, ExecuteCommand("NewSession"))
    ELSE IF cmd = "NewSession"
    THEN [s EXCEPT !.dialog = InputDialog_new("New Session Name", "CreateSession")]
    ELSE s

\* App::execute_command
execute_command(s, env, cmd) ==
    CASE cmd = "OpenFile" ->
            LET s1 == [s EXCEPT !.view = "FilePicker"]
            IN IF s1.file_picker = None THEN FilePicker_new(s1, env, s1.current_path) ELSE s1
      [] cmd = "NewSession" ->
            [s EXCEPT !.dialog = InputDialog_new("New Session Name", "CreateSession")]
      [] cmd = "KillSession" ->
            LET s1 == tmux_current_session(s, env)
            IN IF s1.err THEN s1
               ELSE [s1 EXCEPT !.dialog =
                        ConfirmDialog_new("Kill Session", "Kill current session '{}'?",
                                          env.current, "KillSession", env.current, <<>>)]
      [] cmd = "ListWorktrees" ->
            LET s1 == [s EXCEPT !.view = "WorktreePicker"]
            IN IF s1.worktree_picker = None THEN WorktreePicker_new(s1, env) ELSE s1
      [] cmd = "CreateWorktree" ->
            [s EXCEPT !.dialog = InputDialog_new("New Worktree Branch", "CreateWorktree")]
      [] cmd = "GitStatus" -> handle_action(s, env, Act("ShowGitDiff"))

\* the kinds matched by the `match action` of the global handlers
GlobalKinds ==
    {"Quit", "CloseDialog", "ShowInput", "ShowConfirm", "SwitchSession", "CreateSession",
     "KillSession", "OpenFile", "SwitchWorktree", "CreateWorktree", "DeleteWorktree",
     "MergeWorktree", "ExecuteCommand", "ShowSessionPicker", "ShowCommandPalette",
     "ShowFilePicker", "ShowWorktreePicker", "ShowGitDiff", "Render"}

\* the `match action` of the global handlers (the action is one of GlobalKinds)
handle_global(s, env, action) ==
    CASE action.kind = "Quit" -> [s EXCEPT !.running = FALSE]
      [] action.kind = "CloseDialog" -> [s EXCEPT !.dialog = DialogNone]
      [] action.kind = "ShowInput" ->
            [s EXCEPT !.dialog = InputDialog_new(action.title, action.callback)]
      [] action.kind = "ShowConfirm" ->
            [s EXCEPT !.dialog = ConfirmDialog_new(action.title, action.message,
                                    action.subject, action.callback, action.name, action.path)]
      [] action.kind = "SwitchSession" -> global_SwitchSession(s, env, action)
      [] action.kind = "CreateSession" -> global_CreateSession(s, env, action)
      [] action.kind = "KillSession" -> global_KillSession(s, env, action)
      [] action.kind = "OpenFile" -> global_OpenFile(s, env, action)
      [] action.kind = "SwitchWorktree" -> global_SwitchWorktree(s, env, action)
      [] action.kind = "CreateWorktree" -> global_CreateWorktree(s, env, action)
      [] action.kind = "DeleteWorktree" -> global_DeleteWorktree(s, env, action)
      [] action.kind = "MergeWorktree" -> global_MergeWorktree(s, env, action)
      [] action.kind = "ExecuteCommand" -> execute_command(s, env, action.cmd)
      [] action.kind = "ShowSessionPicker" -> global_ShowSessionPicker(s, env, action)
      [] action.kind = "ShowCommandPalette" -> global_ShowCommandPalette(s, env, action)
      [] action.kind = "ShowFilePicker" -> global_ShowFilePicker(s, env, action)
      [] action.kind = "ShowWorktreePicker" -> global_ShowWorktreePicker(s, env, action)
      [] action.kind = "ShowGitDiff" -> global_ShowGitDiff(s, env, action)
      [] action.kind = "Render" -> s

\* "Delegate to current view": [s, ret]; only the session picker's error is
\* propagated, the others go through .ok() and an absent picker yields None
delegate_to_view(s, env, action) ==
    LET s0 == Emit(s, [Ev("view.handle_action") EXCEPT !.act = action])
    IN CASE s.view = "SessionPicker" -> SessionPicker_handle_action(s0, env, action)
         [] s.view = "CommandPalette" ->
                IF IsSome(s.command_palette)
                THEN LET r == CommandPalette_handle_action(s0, env, action)
                     IN [s |-> Swallow(r.s), ret |-> IF r.s.err THEN None ELSE r.ret]
                ELSE [s |-> s, ret |-> None]
         [] s.view = "FilePicker" ->
                IF IsSome(s.file_picker)
                THEN LET r == FilePicker_handle_action(s0, env, action)
                     IN [s |-> Swallow(r.s), ret |-> IF r.s.err THEN None ELSE r.ret]
                ELSE [s |-> s, ret |-> None]
         [] s.view = "WorktreePicker" ->
                IF IsSome(s.worktree_picker)
                THEN LET r == WorktreePicker_handle_action(s0, env, action)
                     IN [s |-> Swallow(r.s), ret |-> IF r.s.err THEN None ELSE r.ret]
                ELSE [s |-> s, ret |-> None]

\* a dialog branch without its `return Ok(())`: an action the dialog answers
\* with no follow-up falls through to the global handlers and the view
dialog_branch_falls_through(s, env, action) ==
    LET r == IF s.dialog.kind = "Input"
             THEN InputDialog_handle_action(s.dialog, action)
             ELSE ConfirmDialog_handle_action(s.dialog, action)
        s1 == [s EXCEPT !.dialog = r.dialog]
    IN IF IsSome(r.ret) THEN handle_action(s1, env, Unwrap(r.ret))
       ELSE IF action.kind \in GlobalKinds THEN handle_global(s1, env, action)
       ELSE delegate_to_view(s1, env, action).s

\* the dialog branch of handle_action: the dialog consumes the action and
\* its follow-up, if any, is dispatched again
dialog_branch(s, env, action) ==
    LET r == IF s.dialog.kind = "Input"
             THEN InputDialog_handle_action(s.dialog, action)
             ELSE ConfirmDialog_handle_action(s.dialog, action)
        s1 == [s EXCEPT !.dialog = r.dialog]
    IN IF IsSome(r.ret) THEN handle_action(s1, env, Unwrap(r.ret)) ELSE s1

\* a handle_action whose global arms do not return: the action goes on to
\* the active view
handle_action_then_view(s, env, action) ==
    LET s0 == Emit(s, [Ev("handle_action") EXCEPT !.act = action])
    IN IF s0.dialog.kind \in {"Input", "Confirm"} THEN dialog_branch(s0, env, action)
       ELSE IF action.kind \in GlobalKinds
            THEN delegate_to_view(handle_global(s0, env, action), env, action).s
       ELSE LET r == delegate_to_view(s0, env, action)
            IN IF r.s.err THEN r.s
               ELSE IF IsSome(r.ret) THEN handle_action(r.s, env, Unwrap(r.ret))
               ELSE r.s

\* App::handle_action
handle_action(s, env, action) ==
    LET s0 == Emit(s, [Ev("handle_action") EXCEPT !.act = action])
    IN IF s0.dialog.kind \in {"Input", "Confirm"} THEN dialog_branch(s0, env, action)
       ELSE IF action.kind \in GlobalKinds THEN handle_global(s0, env, action)
       ELSE LET r == delegate_to_view(s0, env, action)
            IN IF r.s.err THEN r.s
               ELSE IF IsSome(r.ret) THEN handle_action(r.s, env, Unwrap(r.ret))
               ELSE r.s

\* App::run, one iteration of `while self.running`: render, read one event,
\* map a key to an action and dispatch it (event.kind: "Key", "Resize", "Tick")
run_iteration(s, env, event) ==
    LET s1 == Call(s, env, Ev("render"))
        s2 == Call(s1, env, Ev("next"))
        \* the event that next() returned
        s3 == Emit(s2, [Ev("event") EXCEPT !.name = <<event.kind>>, !.key = event.key])
        action == key_to_action(event.key)
    IN IF s1.err THEN s1
       ELSE IF s2.err THEN s2
       ELSE IF event.kind = "Key" /\ IsSome(action) THEN handle_action(s3, env, Unwrap(action))
       ELSE s3

-----------------------------------------------------------------------------
(* The environment: what the collaborators answer *)

N_a == <<"a">>
N_Ad == <<"A", "d">>
N_b == <<"b">>

SessionLists == {<<>>, <<TmuxSession(N_a), TmuxSession(N_Ad)>>}

P_repo == <<<<"r">>>>
P_wtA == <<<<"r">>, N_a>>
P_wtB == <<<<"r">>, N_b>>

W_main == GitWorktree(P_repo, <<"m">>, TRUE, FALSE)
W_a == GitWorktree(P_wtA, N_a, FALSE, FALSE)
W_b == GitWorktree(P_wtB, N_b, FALSE, TRUE)

WorktreeLists == {<<>>, <<W_main, W_a, W_b>>, <<W_main, W_b>>}

NewPaths == {P_wtA, P_wtB}

CurrentSessions == {N_a}

\* what fs::read_dir yields, in the order it yields it: the order is the
\* file system's, so one directory is listed in more than one order
DirEntry(name, is_dir) == [name |-> name, is_dir |-> is_dir]
DirListings ==
    {<<>>,
     <<DirEntry(<<".", "h">>, FALSE), DirEntry(<<"a">>, FALSE), DirEntry(<<"b">>, TRUE),
       DirEntry(<<"A">>, FALSE)>>,
     <<DirEntry(<<"b">>, TRUE), DirEntry(<<"A">>, FALSE), DirEntry(<<".", "h">>, FALSE),
       DirEntry(<<"a">>, FALSE)>>}

\* tmux.current_path(), or "." when that call fails
CurrentPaths == {P_repo, <<Dot>>}

Views == {"SessionPicker", "CommandPalette", "FilePicker", "WorktreePicker"}

\* the inputs of one step
Env(fail_at, sessions, worktrees, worktrees_again, new_path, current, entries, is_dir) ==
    [fail_at |-> fail_at, sessions |-> sessions, worktrees |-> worktrees,
     worktrees_again |-> worktrees_again,
     new_path |-> new_path, current |-> current, entries |-> entries, is_dir |-> is_dir]

DefaultEnv == Env(0, <<>>, <<>>, <<>>, P_wtA, N_a, <<>>, TRUE)

\* the collaborator calls whose answer is an input of the step
AnswerOps ==
    {"list_sessions", "list_worktrees", "create_worktree", "current_session", "read_dir",
     "is_dir"}

\* the inputs that matter to a step, given a run of it (dry) on DefaultEnv:
\* any one of its fallible calls may fail (one call more than the dry run
\* made, when an answer can lead to further calls), and every collaborator
\* it asks may give any of its answers
EnvsFor(dry) ==
    UNION {{Env(f, ss, ws, wa, np, cu, en, d) :
                f \in 0..(r.ncalls + IF ops \cap AnswerOps = {} THEN 0 ELSE 1),
                ss \in IF "list_sessions" \in ops THEN SessionLists ELSE {<<>>},
                ws \in IF "list_worktrees" \in ops THEN WorktreeLists ELSE {<<>>},
                wa \in IF Cardinality({i \in DOMAIN r.log : r.log[i].op = "list_worktrees"}) > 1
                       THEN WorktreeLists ELSE {<<>>},
                np \in IF "create_worktree" \in ops THEN NewPaths ELSE {P_wtA},
                cu \in IF "current_session" \in ops THEN CurrentSessions ELSE {N_a},
                en \in IF "read_dir" \in ops THEN DirListings ELSE {<<>>},
                d \in IF "is_dir" \in ops THEN BOOLEAN ELSE {TRUE}} :
           r \in {dry}, ops \in {{dry.log[i].op : i \in DOMAIN dry.log}}}

\* the key events the terminal sends
Keys ==
    {KeyEvent("Char", c, {}) : c \in {"a", "d", "n", "m", "q"}}
    \cup {KeyEvent("Char", c, {"CONTROL"}) : c \in {"j", "k"}}
    \cup {KeyEvent(code, "", {}) :
            code \in {"Esc", "Enter", "Backspace", "PageUp", "PageDown", "Up"}}

\* a smaller keyboard, for the runs that also dispatch actions directly
FewKeys ==
    {KeyEvent("Char", c, {}) : c \in {"a", "d", "n"}}
    \cup {KeyEvent("Char", "j", {"CONTROL"})}
    \cup {KeyEvent(code, "", {}) : code \in {"Esc", "Enter"}}

\* every key code with every combination of modifiers, for key_to_action alone
AllKeys ==
    {KeyEvent("Char", c, m) : c \in {"a", "c", "j", "k", "q"}, m \in SUBSET {"CONTROL", "SHIFT"}}
    \cup {KeyEvent(code, "", m) :
            code \in {"Esc", "Enter", "Backspace", "PageUp", "PageDown", "Up", "Down",
                       "Left", "Right", "Tab"},
            m \in SUBSET {"CONTROL", "SHIFT"}}

NoKey == KeyEvent("", "", {})
Event(kind, key) == [kind |-> kind, key |-> key]
Events ==
    {Event("Key", k) : k \in Keys} \cup {Event("Tick", NoKey), Event("Resize", NoKey)}
FewEvents == {Event("Key", k) : k \in FewKeys} \cup {Event("Tick", NoKey)}

P_sock == <<<<"n">>>>

\* the actions no key and no picker of the App produces on their own
DirectActions ==
    {Act("CloseDialog"), CreateSession(N_b, None), KillSession(N_a), CreateWorktree(N_b),
     DeleteWorktree(P_wtA), MergeWorktree(P_wtA), Act("ShowSessionPicker"),
     Act("ShowCommandPalette"), Act("ShowFilePicker"), Act("ShowWorktreePicker"),
     OpenBuffer(P_sock, 1), Act("ShowBufferPicker"), Act("GoBack")}

-----------------------------------------------------------------------------
(* The state machine *)

\* the App and its surface, as the threaded state of a step that starts now
App ==
    [view |-> view, dialog |-> dialog, running |-> running,
     session_picker |-> session_picker, command_palette |-> command_palette,
     file_picker |-> file_picker, worktree_picker |-> worktree_picker,
     current_path |-> current_path, is_repo |-> is_repo, entered |-> entered,
     log |-> <<>>, err |-> FALSE, ncalls |-> 0]

Commit(s) ==
    /\ view' = s.view
    /\ dialog' = s.dialog
    /\ running' = s.running
    /\ session_picker' = s.session_picker
    /\ command_palette' = s.command_palette
    /\ file_picker' = s.file_picker
    /\ worktree_picker' = s.worktree_picker
    /\ entered' = s.entered
    /\ log' = s.log
    /\ UNCHANGED <<current_path, is_repo>>

\* the bounds of the model, on the state a step leads to
WithinBounds(s) ==
    /\ Len(s.session_picker.fuzzy_list.query) <= MaxQuery
    /\ IsSome(s.command_palette) => Len(Unwrap(s.command_palette).fuzzy_list.query) <= MaxQuery
    /\ IsSome(s.file_picker) =>
            /\ Len(Unwrap(s.file_picker).fuzzy_list.query) <= MaxQuery
            /\ Len(Unwrap(s.file_picker).current_dir) <= MaxDepth
    /\ IsSome(s.worktree_picker) => Len(Unwrap(s.worktree_picker).fuzzy_list.query) <= MaxQuery
    /\ Len(s.dialog.input) <= MaxInput

\* App::new(initial_view), when it returns Ok
Init ==
    /\ pc = "start"
    /\ result = "none"
    /\ entered = FALSE
    /\ view \in Views
    /\ dialog = DialogNone
    /\ running = TRUE
    /\ current_path \in CurrentPaths
    /\ is_repo \in BOOLEAN
    /\ \E sessions \in SessionLists :
            session_picker = [fuzzy_list |-> set_items(FuzzyList_new("Sessions"), sessions)]
    /\ command_palette = IF view = "CommandPalette" THEN Some(CommandPalette_new(is_repo))
                         ELSE None
    /\ file_picker = None
    /\ worktree_picker = None
    /\ log = <<>>

\* App::run: self.tui.enter()?
RunEnter ==
    /\ pc = "start"
    /\ \E f \in {0, 1} :
        \E s \in {Tui_enter(App, [DefaultEnv EXCEPT !.fail_at = f])} :
           /\ Commit(s)
           /\ pc' = IF s.err THEN "returned" ELSE "loop"
           /\ result' = IF s.err THEN "err" ELSE "none"

\* a loop that does not look at self.running
IterateOn_while_true(events) ==
    /\ pc = "loop"
    /\ \E event \in events :
        \E dry \in {run_iteration(App, DefaultEnv, event)} :
            \E env \in EnvsFor(dry) :
               \* render() and next() fail before an event is read
               /\ env.fail_at \in 1..2 => event.kind = "Tick"
               /\ \E s \in {IF env = DefaultEnv THEN dry
                             ELSE run_iteration(App, env, event)} :
                      /\ WithinBounds(s)
                      /\ Commit(s)
                      /\ pc' = IF s.err THEN "returned" ELSE "loop"
                      /\ result' = IF s.err THEN "err" ELSE "none"

\* App::run: one iteration of the loop, on an event of the given set
IterateOn(events) ==
    /\ pc = "loop"
    /\ running
    /\ \E event \in events :
        \E dry \in {run_iteration(App, DefaultEnv, event)} :
            \E env \in EnvsFor(dry) :
               \* render() and next() fail before an event is read
               /\ env.fail_at \in 1..2 => event.kind = "Tick"
               /\ \E s \in {IF env = DefaultEnv THEN dry
                             ELSE run_iteration(App, env, event)} :
                      /\ WithinBounds(s)
                      /\ Commit(s)
                      /\ pc' = IF s.err THEN "returned" ELSE "loop"
                      /\ result' = IF s.err THEN "err" ELSE "none"

\* App::run: the loop has ended; self.tui.exit()?; Ok(())
RunExit ==
    /\ pc = "loop"
    /\ ~running
    /\ \E f \in {0, 1} :
        \E s \in {Tui_exit(App, [DefaultEnv EXCEPT !.fail_at = f])} :
           /\ Commit(s)
           /\ pc' = "returned"
           /\ result' = IF s.err THEN "err" ELSE "ok"

Iterate == IterateOn(Events)

Next == RunEnter \/ Iterate \/ RunExit

\* the program: App::new, then App::run
Spec == Init /\ [][Next]_vars

-----------------------------------------------------------------------------
(* The router entered directly: handle_action applied to an action value in  *)
(* a state the run loop has reached (on the smaller keyboard); the call's    *)
(* Result is recorded and the behaviour ends there.                          *)

IterateFew == IterateOn(FewEvents)

\* one global action of each kind that keys and pickers do produce
KeyedActions ==
    {Act("Quit"), Act("Render"), Act("ShowGitDiff"), SwitchSession(N_a), OpenFile(P_wtA),
     SwitchWorktree(P_wtA), SwitchWorktree(P_wtB),
     ExecuteCommand("OpenFile"), ExecuteCommand("ListWorktrees"),
     ShowInput("New Session Name", "CreateSession"),
     ShowConfirm("Delete Session", "Delete session '{}'?", N_a, "KillSession", N_a, <<>>)}

DirectOn(actions) ==
    /\ pc = "loop"
    /\ running
    /\ \E action \in actions :
        \E dry \in {handle_action(App, DefaultEnv, action)} :
            \E env \in EnvsFor(dry) :
                \E s \in {IF env = DefaultEnv THEN dry ELSE handle_action(App, env, action)} :
                   /\ WithinBounds(s)
                   /\ Commit(s)
                   /\ pc' = "called"
                   /\ result' = IF s.err THEN "err" ELSE "ok"

Direct == DirectOn(DirectActions)

DirectKeyed == DirectOn(KeyedActions)

NextDispatch == RunEnter \/ IterateFew \/ RunExit \/ Direct \/ DirectKeyed

SpecDispatch == Init /\ [][NextDispatch]_vars

-----------------------------------------------------------------------------
(* key_to_action alone, on every key *)

PressKey ==
    /\ pc = "start"
    /\ \E key \in AllKeys :
        LET action == key_to_action(key)
        IN log' = <<[Ev("key_to_action") EXCEPT
                        !.key = key, !.ok = IsSome(action),
                        !.act = IF IsSome(action) THEN Unwrap(action) ELSE Act("")]>>
    /\ UNCHANGED <<pc, result, entered, view, dialog, running, session_picker,
                   command_palette, file_picker, worktree_picker, current_path, is_repo>>

SpecKeys == Init /\ [][PressKey]_vars

-----------------------------------------------------------------------------
(* Properties.  log is the record of the last step, in order. *)

\* the positions of log where handle_action was entered
Dispatches(l) == {i \in DOMAIN l : l[i].op = "handle_action"}

\* the calls to the tmux, git, editor and file-system collaborators
CollaboratorOps ==
    {"list_sessions", "switch_session", "create_session", "kill_session",
     "current_session", "popup_command", "list_worktrees", "create_worktree",
     "delete_worktree", "merge_to_main", "open_file", "read_dir", "is_dir"}

\* the list of the active view, if that view has been constructed
ActiveList ==
    CASE view = "SessionPicker" -> Some(session_picker.fuzzy_list)
      [] view = "CommandPalette" ->
            IF IsSome(command_palette) THEN Some(Unwrap(command_palette).fuzzy_list) ELSE None
      [] view = "FilePicker" ->
            IF IsSome(file_picker) THEN Some(Unwrap(file_picker).fuzzy_list) ELSE None
      [] view = "WorktreePicker" ->
            IF IsSome(worktree_picker) THEN Some(Unwrap(worktree_picker).fuzzy_list) ELSE None

\* C1: when the handler of the active dialog returns a follow-up action, the
\* router clears the dialog before it dispatches the follow-up, so the
\* follow-up is dispatched with no dialog active.
C1_FollowUpDispatchedWithoutDialog ==
    \A i \in Dispatches(log) :
        (i > 1 /\ log[i - 1].op = "handle_action" /\ log[i - 1].dlg \in {"Input", "Confirm"})
            => log[i].dlg = "None"

\* C2: while a dialog is active an action is routed only to the dialog: when
\* the dialog returns no follow-up action, the dispatch leaves the view, the
\* pickers (their query and cursor) and the running flag as they were, passes
\* nothing to the view and makes no collaborator call.
C2_DialogConsumesAction ==
    [][ (/\ pc = "loop"
         /\ dialog.kind \in {"Input", "Confirm"}
         /\ Cardinality(Dispatches(log')) = 1)
        => /\ view' = view
           /\ running' = running
           /\ session_picker' = session_picker
           /\ command_palette' = command_palette
           /\ file_picker' = file_picker
           /\ worktree_picker' = worktree_picker
           /\ \A i \in DOMAIN log' :
                log'[i].op \notin CollaboratorOps \cup {"view.handle_action"} ]_vars

\* C2, its case: a character typed into an input dialog, which kept it
C2_Witness ==
    /\ dialog.kind = "Input"
    /\ dialog.input # <<>>
    /\ Cardinality(Dispatches(log)) = 1
    /\ \E i \in Dispatches(log) : log[i].dlg = "Input" /\ log[i].act.kind = "Character"

\* the five actions whose handlers change something outside the program
ExternalKinds ==
    {"CreateSession", "KillSession", "CreateWorktree", "DeleteWorktree", "MergeWorktree"}

\* C4: when the dispatch of CreateSession, KillSession, CreateWorktree,
\* DeleteWorktree or MergeWorktree returns an error, the dialog, the view and
\* the running flag are what they were before the dispatch.
C4_ErrorLeavesRouterState ==
    [][ (/\ result' = "err"
         /\ log' # <<>>
         /\ log'[1].op = "handle_action"
         /\ log'[1].act.kind \in ExternalKinds)
        => (dialog' = dialog /\ view' = view /\ running' = running) ]_vars

\* C4, its case: CreateWorktree created the worktree and the switch to it failed
C4_Witness ==
    /\ pc = "called"
    /\ result = "err"
    /\ log[1].act.kind = "CreateWorktree"
    /\ \E i \in DOMAIN log : log[i].op = "create_worktree" /\ log[i].ok
    /\ ~log[Len(log)].ok

\* C5: once run() has entered the surface, every return of run(), Ok or Err,
\* leaves the surface exited (the surface's own enter and exit succeeding).
C5_ReturnLeavesSurfaceExited ==
    (/\ pc = "returned"
     /\ \A i \in DOMAIN log : log[i].op \in {"tui.enter", "tui.exit"} => log[i].ok)
        => ~entered

\* C6: switch_session, open_file and popup_command are only called while the
\* surface is exited, also on the path of CreateSession.
C6_ExternalHandOffOutsideSurface ==
    \A i \in DOMAIN log :
        log[i].op \in {"switch_session", "open_file", "popup_command"} => ~log[i].entered

\* C7: Escape in a picker whose query is empty, with no dialog active, has an
\* effect: after the dispatch the view has changed or the loop has stopped.
C7_EscapeOnEmptyQueryGoesBack ==
    [][ (/\ pc = "loop"
         /\ dialog.kind = "None"
         /\ IsSome(ActiveList)
         /\ query(Unwrap(ActiveList)) = <<>>
         /\ result' # "err"
         /\ \E i \in Dispatches(log') : log'[i].act.kind = "Escape")
        => (view' # view \/ ~running') ]_vars

\* C8: OpenBuffer dispatched with no dialog active is handled by a global
\* handler like OpenFile: the surface is left and the loop is stopped, and
\* the action is not passed to the view.
C8_OpenBufferHandledGlobally ==
    (/\ pc = "called"
     /\ result = "ok"
     /\ log[1].act.kind = "OpenBuffer"
     /\ log[1].dlg = "None")
        => /\ ~entered
           /\ ~running
           /\ \A i \in DOMAIN log : log[i].op # "view.handle_action"

\* C9: key_to_action maps Down and Ctrl+j to MoveDown and Up and Ctrl+k to
\* MoveUp, the arrow keys also with no modifier held, and j or k with no
\* modifier to Character.
C9_ArrowsAndCtrlLettersMove ==
    \A i \in DOMAIN log :
        log[i].op = "key_to_action" =>
            LET key == log[i].key
                action == log[i].act
            IN /\ key.code = "Down" => action.kind = "MoveDown"
               /\ key.code = "Up" => action.kind = "MoveUp"
               /\ (key.code = "Char" /\ key.ch = "j" /\ contains_CONTROL(key))
                    => action.kind = "MoveDown"
               /\ (key.code = "Char" /\ key.ch = "k" /\ contains_CONTROL(key))
                    => action.kind = "MoveUp"
               /\ (key.code = "Char" /\ key.ch \in {"j", "k"} /\ key.modifiers = {})
                    => (action.kind = "Character" /\ action.ch = key.ch)

\* C10: Enter in an input dialog for a new session holding the text t makes
\* the router call create_session(t, None), then switch_session(t), leave no
\* dialog active and stop the loop (every call succeeding).
C10_EnterCreatesAndSwitches ==
    \A i \in Dispatches(log) :
        (/\ i > 1
         /\ log[i].act.kind = "CreateSession"
         /\ log[i - 1].op = "handle_action"
         /\ log[i - 1].act.kind = "Enter"
         /\ log[i - 1].dlg = "Input"
         /\ \A j \in DOMAIN log : log[j].ok)
        => /\ \E j, k \in DOMAIN log :
                /\ i < j /\ j < k
                /\ log[j].op = "create_session"
                /\ log[j].name = log[i].act.name
                /\ ~log[j].some_path
                /\ log[k].op = "switch_session"
                /\ log[k].name = log[i].act.name
           /\ dialog.kind = "None"
           /\ ~running

\* the last segment of a (non-empty) path
LastSegment(path) == path[Len(path)]

\* C11: with a Confirm dialog active, Escape ends the dispatch with the dialog
\* cleared to none, with no KillSession, DeleteWorktree or MergeWorktree
\* dispatched and with no collaborator call made.
C11_EscapeClearsConfirm ==
    \A i \in Dispatches(log) :
        (log[i].act.kind = "Escape" /\ log[i].dlg = "Confirm")
            => /\ dialog.kind = "None"
               /\ \A j \in Dispatches(log) :
                    log[j].act.kind \notin {"KillSession", "DeleteWorktree", "MergeWorktree"}
               /\ \A j \in DOMAIN log : log[j].op \notin CollaboratorOps

\* C12: SwitchWorktree(path), every call succeeding, lists the sessions, calls
\* create_session(name, path) if and only if no listed session has the name of
\* the path's last segment, then calls switch_session(name) and stops the loop.
C12_SwitchWorktreeCreatesIfAbsent ==
    \A i \in Dispatches(log) :
        (/\ log[i].act.kind = "SwitchWorktree"
         /\ log[i].dlg = "None"
         /\ \A j \in DOMAIN log : log[j].ok)
        => LET name == LastSegment(log[i].act.path)
               creates == {k \in DOMAIN log : k > i /\ log[k].op = "create_session"}
           IN /\ \E j \in DOMAIN log :
                    /\ j > i
                    /\ log[j].op = "list_sessions"
                    /\ (creates = {}) <=>
                            (\E n \in DOMAIN log[j].sessions : log[j].sessions[n].name = name)
                    /\ \A k \in creates :
                            /\ k > j
                            /\ log[k].name = name
                            /\ log[k].some_path
                            /\ log[k].path = log[i].act.path
              /\ \E k \in DOMAIN log :
                    /\ k > i
                    /\ log[k].op = "switch_session"
                    /\ log[k].name = name
                    /\ \A c \in creates : c < k
              /\ ~running

\* C12, its case: the session exists already and is only switched to
C12_Witness ==
    /\ ~running
    /\ \E i \in Dispatches(log) : log[i].act.kind = "SwitchWorktree" /\ log[i].dlg = "None"
    /\ \E j \in DOMAIN log : log[j].op = "list_sessions" /\ log[j].sessions # <<>>
    /\ \E k \in DOMAIN log : log[k].op = "switch_session" /\ log[k].ok
    /\ \A k \in DOMAIN log : log[k].op # "create_session"

\* C13: the chain of actions dispatched for one input-mapped action is finite
\* and no action kind appears twice in it.
C13_NoKindTwiceInChain ==
    \A i, j \in Dispatches(log) : i # j => log[i].act.kind # log[j].act.kind

\* C13, its case: a chain of three, Enter on the palette's GitStatus
C13_Witness ==
    /\ Cardinality(Dispatches(log)) = 3
    /\ \E i \in Dispatches(log) : log[i].act.kind = "ShowGitDiff"

\* the global set of the router
GlobalSet ==
    {"Quit", "CloseDialog", "ShowInput", "ShowConfirm", "SwitchSession", "CreateSession",
     "KillSession", "OpenFile", "SwitchWorktree", "CreateWorktree", "DeleteWorktree",
     "MergeWorktree", "ExecuteCommand", "ShowSessionPicker", "ShowCommandPalette",
     "ShowFilePicker", "ShowWorktreePicker", "ShowGitDiff", "Render"}

\* the list of view v among the given pickers, if that picker exists
ListOf(v, sp, cp, fp, wp) ==
    CASE v = "SessionPicker" -> Some(sp.fuzzy_list)
      [] v = "CommandPalette" -> IF IsSome(cp) THEN Some(Unwrap(cp).fuzzy_list) ELSE None
      [] v = "FilePicker" -> IF IsSome(fp) THEN Some(Unwrap(fp).fuzzy_list) ELSE None
      [] v = "WorktreePicker" -> IF IsSome(wp) THEN Some(Unwrap(wp).fuzzy_list) ELSE None

\* C14: with no dialog active, an action of the global set is handled by the
\* router and nothing is passed to the active view's handle_action after it
\* in that dispatch; the query of the view that was active is unchanged.
C14_GlobalActionNotDelegated ==
    [][ /\ \A i \in Dispatches(log') :
                (log'[i].dlg = "None" /\ log'[i].act.kind \in GlobalSet)
                    => \A j \in DOMAIN log' : j > i => log'[j].op # "view.handle_action"
        /\ (/\ log' # <<>>
            /\ log'[1].op = "handle_action"
            /\ log'[1].dlg = "None"
            /\ log'[1].act.kind \in GlobalSet
            /\ IsSome(ActiveList))
           => LET after == ListOf(view, session_picker', command_palette', file_picker',
                                  worktree_picker')
              IN IsSome(after) /\ query(Unwrap(after)) = query(Unwrap(ActiveList)) ]_vars

\* C14, its case: KillSession handled while the session picker holds a query
C14_Witness ==
    /\ pc = "called"
    /\ result = "ok"
    /\ log[1].act.kind = "KillSession"
    /\ log[1].dlg = "None"
    /\ view = "SessionPicker"
    /\ query(session_picker.fuzzy_list) # <<>>

\* C15: CreateWorktree(branch) in a repository, every call succeeding, calls
\* create_worktree(branch), which returns p, clears the dialog and then
\* dispatches SwitchWorktree(p): the session named after p's last segment is
\* switched to and the loop stops.
C15_CreateWorktreeChains ==
    (/\ pc = "called"
     /\ result = "ok"
     /\ log[1].act.kind = "CreateWorktree"
     /\ log[1].dlg = "None"
     /\ is_repo)
    => /\ \E j, k, m \in DOMAIN log :
            /\ j < k /\ k < m
            /\ log[j].op = "create_worktree"
            /\ log[j].branch = log[1].act.name
            /\ log[k].op = "handle_action"
            /\ log[k].act.kind = "SwitchWorktree"
            /\ log[k].act.path = log[j].path
            /\ log[k].dlg = "None"
            /\ log[m].op = "switch_session"
            /\ log[m].name = LastSegment(log[j].path)
       /\ dialog.kind = "None"
       /\ ~running

\* C15, its case: the worktree is created and a session for it too
C15_Witness ==
    /\ pc = "called"
    /\ result = "ok"
    /\ log[1].act.kind = "CreateWorktree"
    /\ \E j \in DOMAIN log : log[j].op = "create_worktree" /\ log[j].ok
    /\ \E j \in DOMAIN log : log[j].op = "create_session" /\ log[j].ok
    /\ ~running

\* C16: MergeWorktree(path) calls list_worktrees() before any merge, and
\* calls merge_to_main(path, b) only with b the branch of the listed worktree
\* whose path is path.
C16_MergeUsesListedBranch ==
    \A k \in DOMAIN log :
        log[k].op = "merge_to_main" =>
            /\ \E i \in Dispatches(log) :
                    /\ i < k
                    /\ log[i].act.kind = "MergeWorktree"
                    /\ log[i].act.path = log[k].path
            /\ \E j \in DOMAIN log :
                    /\ j < k
                    /\ log[j].op = "list_worktrees"
                    /\ log[j].ok
                    /\ \E n \in DOMAIN log[j].worktrees :
                            /\ log[j].worktrees[n].path = log[k].path
                            /\ log[j].worktrees[n].branch = log[k].branch

\* C16, its case: a worktree that is not the first of the listing is merged,
\* and the listing the picker is refreshed to afterwards no longer holds it
C16_Witness ==
    /\ pc = "called"
    /\ result = "ok"
    /\ log[1].act.kind = "MergeWorktree"
    /\ \E k \in DOMAIN log : log[k].op = "merge_to_main" /\ log[k].ok /\ log[k].branch = N_a
    /\ IsSome(worktree_picker)
    /\ Unwrap(worktree_picker).fuzzy_list.items # <<>>
    /\ \A n \in DOMAIN Unwrap(worktree_picker).fuzzy_list.items :
            Unwrap(worktree_picker).fuzzy_list.items[n].path # log[1].act.path

\* C17: after KillSession(name) has completed successfully, kill_session(name)
\* has been called exactly once, the dialog is none, the session picker's
\* items are the answer of a list_sessions() call made after the kill, and
\* the loop is still running.
C17_KillSessionRefreshes ==
    (/\ pc = "called"
     /\ result = "ok"
     /\ log[1].act.kind = "KillSession"
     /\ log[1].dlg = "None")
    => /\ Cardinality({k \in DOMAIN log : log[k].op = "kill_session"}) = 1
       /\ \E k, j \in DOMAIN log :
            /\ k < j
            /\ log[k].op = "kill_session"
            /\ log[k].name = log[1].act.name
            /\ log[j].op = "list_sessions"
            /\ session_picker.fuzzy_list.items = log[j].sessions
       /\ dialog.kind = "None"
       /\ running

\* C17, its case: the sessions listed after the kill are in the picker
C17_Witness ==
    /\ pc = "called"
    /\ result = "ok"
    /\ log[1].act.kind = "KillSession"
    /\ log[1].dlg = "None"
    /\ \E j \in DOMAIN log : log[j].op = "list_sessions" /\ log[j].sessions # <<>>
    /\ session_picker.fuzzy_list.items # <<>>

\* C18: ShowCommandPalette, ShowFilePicker, ShowWorktreePicker and the palette
\* commands OpenFile and ListWorktrees, applied when their picker exists
\* already, make it the active view and change nothing else: the picker keeps
\* its items, query and cursor.
C18_PickerBuiltOnce ==
    [][ (/\ log' # <<>>
         /\ log'[1].op = "handle_action"
         /\ log'[1].dlg = "None")
        => LET a == log'[1].act
               kept == /\ session_picker' = session_picker
                       /\ command_palette' = command_palette
                       /\ file_picker' = file_picker
                       /\ worktree_picker' = worktree_picker
                       /\ dialog' = dialog
                       /\ running' = running
           IN /\ (a.kind = "ShowCommandPalette" /\ IsSome(command_palette))
                    => (kept /\ view' = "CommandPalette")
              /\ (/\ a.kind = "ShowFilePicker" \/ (a.kind = "ExecuteCommand" /\ a.cmd = "OpenFile")
                  /\ IsSome(file_picker))
                    => (kept /\ view' = "FilePicker")
              /\ (/\ a.kind = "ShowWorktreePicker"
                        \/ (a.kind = "ExecuteCommand" /\ a.cmd = "ListWorktrees")
                  /\ IsSome(worktree_picker))
                    => (kept /\ view' = "WorktreePicker") ]_vars

\* C18, its case: ShowFilePicker on a file picker that holds a query
C18_Witness ==
    /\ pc = "called"
    /\ log[1].act.kind = "ShowFilePicker"
    /\ log[1].dlg = "None"
    /\ view = "FilePicker"
    /\ IsSome(file_picker)
    /\ query(Unwrap(file_picker).fuzzy_list) # <<>>

\* C19: after Quit is dispatched with no dialog active the running flag is
\* false, and once it is false the run loop performs no other render and
\* reads no other event.
C19_QuitStopsLoop ==
    [][ /\ (\E i \in Dispatches(log') : log'[i].act.kind = "Quit" /\ log'[i].dlg = "None")
            => ~running'
        /\ ~running => \A i \in DOMAIN log' : log'[i].op \notin {"render", "next", "event"} ]_vars

\* C19, its case: Quit has just been dispatched
C19_Witness ==
    /\ pc = "loop"
    /\ ~running
    /\ \E i \in Dispatches(log) : log[i].act.kind = "Quit" /\ log[i].dlg = "None"

\* the paths of the worktrees listed as the main worktree
MainPaths ==
    UNION {{l[n].path : n \in {m \in DOMAIN l : l[m].is_main}} : l \in WorktreeLists}

\* C20: in the worktree picker with an empty query, 'd' or 'm' pressed while
\* the selected worktree is the main one yields no follow-up action: no
\* dialog is opened and the picker (its query too) stays as it was; and no
\* DeleteWorktree or MergeWorktree is ever dispatched for the main worktree.
C20_MainWorktreeKept ==
    [][ /\ (/\ pc = "loop"
            /\ dialog.kind = "None"
            /\ view = "WorktreePicker"
            /\ IsSome(worktree_picker)
            /\ query(Unwrap(ActiveList)) = <<>>
            /\ IsSome(selected(Unwrap(ActiveList)))
            /\ Unwrap(selected(Unwrap(ActiveList))).is_main
            /\ \E i \in Dispatches(log') :
                    log'[i].act.kind = "Character" /\ log'[i].act.ch \in {"d", "m"})
           => /\ Cardinality(Dispatches(log')) = 1
              /\ dialog'.kind = "None"
              /\ worktree_picker' = worktree_picker
        /\ \A i \in Dispatches(log') :
                log'[i].act.kind \in {"DeleteWorktree", "MergeWorktree"}
                    => log'[i].act.path \notin MainPaths ]_vars

\* C20, its case: 'd' pressed on the main worktree, which is still selected
C20_Witness ==
    /\ view = "WorktreePicker"
    /\ dialog.kind = "None"
    /\ IsSome(ActiveList)
    /\ query(Unwrap(ActiveList)) = <<>>
    /\ IsSome(selected(Unwrap(ActiveList)))
    /\ Unwrap(selected(Unwrap(ActiveList))).is_main
    /\ \E i \in Dispatches(log) :
            /\ log[i].act.kind = "Character"
            /\ log[i].act.ch = "d"
            /\ log[i].view = "WorktreePicker"
            /\ log[i].dlg = "None"

\* the lists of the pickers that exist
Lists ==
    {session_picker.fuzzy_list}
    \cup {Unwrap(p).fuzzy_list : p \in {command_palette, file_picker, worktree_picker} \ {None}}

\* C21: in every list, whatever calls the pickers have made on it, the cursor
\* is None if and only if the filtered view is empty, and otherwise lies in
\* [0, len(filtered)).
C21_CursorInFilteredView ==
    \A l \in Lists :
        /\ (l.cursor = None) <=> (l.filtered = <<>>)
        /\ IsSome(l.cursor) => (0 <= Unwrap(l.cursor) /\ Unwrap(l.cursor) < Len(l.filtered))

\* C21, its case: a filtered view of several entries, the cursor moved off the top
C21_Witness ==
    \E l \in Lists :
        /\ query(l) # <<>>
        /\ Len(l.filtered) >= 2
        /\ Len(l.filtered) < Len(l.items)
        /\ l.cursor = Some(Len(l.filtered) - 1)

\* C22: a push_char, pop_char or clear_query call on the active view's list
\* (a character appended, Backspace, Escape on a non-empty query) leaves the
\* cursor at 0 whenever the resulting filtered view is non-empty.
C22_EditResetsCursor ==
    [][ (/\ pc = "loop"
         /\ dialog.kind = "None"
         /\ IsSome(ActiveList)
         /\ result' # "err"
         /\ \E i \in Dispatches(log') :
                LET after == ListOf(view, session_picker', command_palette', file_picker',
                                    worktree_picker')
                IN \/ log'[i].act.kind = "Backspace"
                   \/ log'[i].act.kind = "Escape" /\ query(Unwrap(ActiveList)) # <<>>
                   \/ /\ log'[i].act.kind = "Character"
                      /\ query(Unwrap(after)) # query(Unwrap(ActiveList)))
        => LET after == ListOf(view, session_picker', command_palette', file_picker',
                               worktree_picker')
           IN Unwrap(after).filtered # <<>> => Unwrap(after).cursor = Some(0) ]_vars

\* C22, its case: Backspace left a query that still filters the list
C22_Witness ==
    /\ dialog.kind = "None"
    /\ IsSome(ActiveList)
    /\ \E i \in Dispatches(log) : log[i].act.kind = "Backspace" /\ log[i].dlg = "None"
    /\ query(Unwrap(ActiveList)) # <<>>
    /\ Unwrap(ActiveList).filtered # <<>>
    /\ Len(Unwrap(ActiveList).filtered) < Len(Unwrap(ActiveList).items)
    /\ Unwrap(ActiveList).cursor = Some(0)

(* The refresh of the active view, called on its own *)

\* the refresh method of the view of s (whose component exists)
view_refresh(s, env) ==
    CASE s.view = "SessionPicker" -> SessionPicker_refresh(s, env)
      [] s.view = "CommandPalette" ->
            [s EXCEPT !.command_palette = Some(CommandPalette_refresh(Unwrap(@)))]
      [] s.view = "FilePicker" -> FilePicker_refresh(s, env)
      [] s.view = "WorktreePicker" -> WorktreePicker_refresh(s, env)

\* the first entry of the record of a refresh step: the upstream data the
\* step was given; op is "refresh_again" when the step before was a refresh
\* on the same data with the same outcome of every call
RefreshMark(s, env) ==
    LET data == [Ev("refresh") EXCEPT !.sessions = env.sessions,
                                      !.worktrees = env.worktrees,
                                      !.entries = env.entries,
                                      !.ok = ~s.err,
                                      !.entered = s.entered,
                                      !.dlg = s.dialog.kind,
                                      !.view = s.view]
        again == /\ log # <<>>
                 /\ log[1].op \in {"refresh", "refresh_again"}
                 /\ [log[1] EXCEPT !.op = "refresh"] = data
                 /\ Tail(log) = s.log
    IN [data EXCEPT !.op = IF again THEN "refresh_again" ELSE "refresh"]

Refresh ==
    /\ pc = "loop"
    /\ running
    /\ IsSome(ActiveList)
    /\ \E env \in EnvsFor(view_refresh(App, DefaultEnv)) :
        \E s \in {view_refresh(App, env)} :
           /\ Commit([s EXCEPT !.log = <<RefreshMark(s, env)>> \o @])
           /\ pc' = "loop"
           /\ result' = IF s.err THEN "err" ELSE "none"

\* CommandPalette::set_git_repo, called on the palette on its own
SetGitRepo ==
    /\ pc = "loop"
    /\ running
    /\ IsSome(command_palette)
    /\ \E flag \in BOOLEAN :
        /\ command_palette' = Some(CommandPalette_set_git_repo(Unwrap(command_palette), flag))
        /\ log' = <<[Ev("set_git_repo") EXCEPT !.ok = flag, !.entered = entered,
                                               !.dlg = dialog.kind, !.view = view]>>
    /\ result' = "none"
    /\ UNCHANGED <<pc, entered, view, dialog, running, session_picker, file_picker,
                   worktree_picker, current_path, is_repo>>

NextRefresh == RunEnter \/ IterateFew \/ RunExit \/ Refresh \/ SetGitRepo

SpecRefresh == Init /\ [][NextRefresh]_vars

\* C23: a view's refresh called twice in a row on the same upstream data, the
\* query unchanged, leaves after the second call the filtered view and the
\* cursor the first call left.
C23_RefreshIdempotent ==
    [][ (log' # <<>> /\ log'[1].op = "refresh_again")
        => LET after == ListOf(view, session_picker', command_palette', file_picker',
                               worktree_picker')
           IN /\ Unwrap(after).filtered = Unwrap(ActiveList).filtered
              /\ Unwrap(after).cursor = Unwrap(ActiveList).cursor
              /\ Unwrap(after).items = Unwrap(ActiveList).items ]_vars

\* C23, its case: a second refresh of a filtered, non-empty list whose
\* upstream data was listed both times
C23_Witness ==
    /\ log # <<>>
    /\ log[1].op = "refresh_again"
    /\ log[1].ok
    /\ Len(log) >= 2
    /\ log[2].ok
    /\ view \in {"SessionPicker", "FilePicker", "WorktreePicker"}
    /\ query(Unwrap(ActiveList)) # <<>>
    /\ Unwrap(ActiveList).filtered # <<>>
    /\ Len(Unwrap(ActiveList).filtered) < Len(Unwrap(ActiveList).items)

\* C24: with no dialog active, Escape in a picker whose query is non-empty
\* only clears the query: view, dialog and running are unchanged and no GoBack
\* is dispatched; a GoBack is dispatched only by an Escape pressed while the
\* query was already empty.
C24_EscapeClearsQueryFirst ==
    [][ /\ (/\ pc = "loop"
            /\ dialog.kind = "None"
            /\ IsSome(ActiveList)
            /\ query(Unwrap(ActiveList)) # <<>>
            /\ \E i \in Dispatches(log') : log'[i].act.kind = "Escape")
           => /\ view' = view
              /\ dialog' = dialog
              /\ running' = running
              /\ \A i \in Dispatches(log') : log'[i].act.kind # "GoBack"
              /\ query(Unwrap(ListOf(view, session_picker', command_palette', file_picker',
                                     worktree_picker'))) = <<>>
        /\ (\E i \in Dispatches(log') : log'[i].act.kind = "GoBack")
           => /\ dialog.kind = "None"
              /\ IsSome(ActiveList)
              /\ query(Unwrap(ActiveList)) = <<>>
              /\ \E j \in Dispatches(log') : log'[j].act.kind = "Escape" ]_vars

\* C24, its case: Escape was pressed with no dialog, the query is now empty
\* and the step dispatched nothing but Escape and Render
C24_Witness ==
    /\ pc = "loop"
    /\ IsSome(ActiveList)
    /\ query(Unwrap(ActiveList)) = <<>>
    /\ \E i \in Dispatches(log) : log[i].act.kind = "Escape" /\ log[i].dlg = "None"
    /\ \E i \in Dispatches(log) : log[i].act.kind = "Render"
    /\ \A i \in Dispatches(log) : log[i].act.kind \in {"Escape", "Render"}

\* C25: in every reachable state, for every initial view App::new accepts,
\* the component of the active view has been constructed.
C25_ActiveViewConstructed ==
    /\ view = "CommandPalette" => IsSome(command_palette)
    /\ view = "FilePicker" => IsSome(file_picker)
    /\ view = "WorktreePicker" => IsSome(worktree_picker)

\* C26: tui.enter() and tui.exit() alternate, starting with enter(): exit()
\* is called only while the surface is entered and enter() only while it is
\* not, also in the runs that SwitchSession, OpenFile or SwitchWorktree end.
C26_EnterExitAlternate ==
    \A i \in DOMAIN log :
        /\ log[i].op = "tui.exit" => log[i].entered
        /\ log[i].op = "tui.enter" => ~log[i].entered

\* some query holds the character c
InSomeQuery(c, sp, cp, fp, wp) ==
    \E l \in {sp.fuzzy_list} \cup {Unwrap(p).fuzzy_list : p \in {cp, fp, wp} \ {None}} :
        \E i \in DOMAIN query(l) : query(l)[i] = c

\* the key the step read, if it read one
KeyRead(l, c) ==
    \E i \in DOMAIN l : l[i].op = "event" /\ l[i].key = KeyEvent("Char", c, {})

\* C27: with no dialog active the key 'q' stops the loop (Quit) instead of
\* being appended, whether or not the query is empty, and no reachable query
\* contains 'q'.
C27_QNeverTyped ==
    [][ /\ ~InSomeQuery("q", session_picker', command_palette', file_picker', worktree_picker')
        /\ (pc = "loop" /\ dialog.kind = "None" /\ KeyRead(log', "q"))
           => /\ ~running'
              /\ \E i \in Dispatches(log') : log'[i].act.kind = "Quit"
              /\ <<session_picker, command_palette, file_picker, worktree_picker>>'
                    = <<session_picker, command_palette, file_picker, worktree_picker>> ]_vars

\* C27, its case: 'q' was pressed on a non-empty query, with no dialog
C27_Witness ==
    /\ KeyRead(log, "q")
    /\ \E i \in Dispatches(log) : log[i].act.kind = "Quit" /\ log[i].dlg = "None"
    /\ IsSome(ActiveList)
    /\ query(Unwrap(ActiveList)) # <<>>
    /\ ~running

\* the query does not start with one of the characters cs
NotStartingWith(l, cs) == query(l) = <<>> \/ query(l)[1] \notin cs

\* C28: 'd' and 'n' typed in the session picker with an empty query are
\* hotkeys, never appended (also when the list is empty and 'd' yields no
\* action), so its query never starts with 'd' or 'n'; the worktree picker's
\* query never starts with 'd', 'm' or 'n'.
C28_HotkeysNotTyped ==
    [][ /\ NotStartingWith(session_picker'.fuzzy_list, {"d", "n"})
        /\ IsSome(worktree_picker')
           => NotStartingWith(Unwrap(worktree_picker').fuzzy_list, {"d", "m", "n"})
        /\ (/\ pc = "loop"
            /\ dialog.kind = "None"
            /\ view = "SessionPicker"
            /\ query(session_picker.fuzzy_list) = <<>>
            /\ (KeyRead(log', "d") \/ KeyRead(log', "n")))
           => query(session_picker'.fuzzy_list) = <<>>
        /\ (/\ pc = "loop"
            /\ dialog.kind = "None"
            /\ view = "WorktreePicker"
            /\ IsSome(worktree_picker)
            /\ query(Unwrap(worktree_picker).fuzzy_list) = <<>>
            /\ (KeyRead(log', "d") \/ KeyRead(log', "m") \/ KeyRead(log', "n")))
           => query(Unwrap(worktree_picker').fuzzy_list) = <<>> ]_vars

\* C28, its case: 'd' was pressed in the session picker on an empty list and
\* yielded no action
C28_Witness ==
    /\ view = "SessionPicker"
    /\ KeyRead(log, "d")
    /\ session_picker.fuzzy_list.items = <<>>
    /\ query(session_picker.fuzzy_list) = <<>>
    /\ \E i \in Dispatches(log) : log[i].act.kind = "Character" /\ log[i].dlg = "None"
    /\ Cardinality(Dispatches(log)) = 1

\* the step was a direct call of handle_action, no dialog active, on one of kinds
CalledWith(kinds) ==
    /\ pc = "called"
    /\ log # <<>>
    /\ log[1].op = "handle_action"
    /\ log[1].act.kind \in kinds
    /\ log[1].dlg = "None"

\* the worktree listing the step got has no worktree with the path
\* (the first listing of the step; a refresh after it may list again), and
\* every call of the step returned Ok
Unlisted(path) ==
    /\ \E i \in DOMAIN log :
            /\ log[i].op = "list_worktrees"
            /\ \A j \in 1..(i - 1) : log[j].op # "list_worktrees"
            /\ \A k \in DOMAIN log[i].worktrees : log[i].worktrees[k].path # path
    /\ \A i \in DOMAIN log : log[i].ok

\* C29: when the worktree listing has no worktree with the path,
\* MergeWorktree(path) makes no merge_to_main call and still completes
\* successfully: the dialog is cleared and no error is returned.
C29_UnlistedMergeIsNoOp ==
    (CalledWith({"MergeWorktree"}) /\ is_repo /\ Unlisted(log[1].act.path))
    => /\ \A i \in DOMAIN log : log[i].op # "merge_to_main"
       /\ result = "ok"
       /\ dialog.kind = "None"

\* C29, its case: the merge of an unlisted path, the worktree picker
\* refreshed after it to a listing that holds the path
C29_Witness ==
    /\ CalledWith({"MergeWorktree"})
    /\ is_repo
    /\ Unlisted(log[1].act.path)
    /\ IsSome(worktree_picker)
    /\ Cardinality({i \in DOMAIN log : log[i].op = "list_worktrees"}) = 2
    /\ \E k \in DOMAIN Unwrap(worktree_picker).fuzzy_list.items :
            Unwrap(worktree_picker).fuzzy_list.items[k].path = log[1].act.path
    /\ result = "ok"

\* C30: when the current path is not a repository, CreateWorktree,
\* DeleteWorktree and MergeWorktree make no call to the version control
\* client, clear the dialog and return success, view and running unchanged.
C30_NoRepoNoVcsCall ==
    (CalledWith({"CreateWorktree", "DeleteWorktree", "MergeWorktree"}) /\ ~is_repo)
    => /\ \A i \in DOMAIN log :
            log[i].op \notin {"list_worktrees", "create_worktree", "delete_worktree",
                              "merge_to_main"}
       /\ Dispatches(log) = {1}
       /\ result = "ok"
       /\ dialog.kind = "None"
       /\ view = log[1].view
       /\ running

\* C30, its case: DeleteWorktree dispatched outside a repository
C30_Witness ==
    /\ CalledWith({"DeleteWorktree"})
    /\ ~is_repo
    /\ result = "ok"
    /\ Len(log) = 1

=============================================================================
